---- MODULE Spec2Model ----
(***************************************************************************)
(* Model of src/app/app.py: a Flask service whose two instrumented routes  *)
(* (GET / and GET /hello/<name>) open a tracing span, run a small body,    *)
(* close the span, increment a Prometheus counter, observe a latency       *)
(* histogram, write one logfmt line and return; /healthz and /metrics are  *)
(* uninstrumented.  Requests are served by concurrent threads; the         *)
(* Prometheus registry, the log stream and the span processor's queue are  *)
(* shared.                                                                 *)
(*                                                                         *)
(* Strings are sequences of one-character strings.  The clock is counted   *)
(* in ticks of 0.04 ms, so that round(x * 1000, 1) is a real rounding.     *)
(***************************************************************************)
EXTENDS Integers, Sequences, FiniteSets, TLC

(* ---------------- bounds of the model ---------------- *)

\* requests served in one behaviour (each by its own thread)
MaxReq == 2

\* requests served in the behaviours that also serve /healthz and /metrics
MaxProbedReq == 1

\* the system clock reads 0..MaxClock
MaxClock == 2

\* scrapes of /metrics and probes of /healthz in one behaviour
MaxScrapes == 2

\* longest field value given to logfmt in the logfmt specification
MaxValLen == 2

(* ---------------- program constants ---------------- *)

\* app.py:95  request.headers.get("User-Agent", "")[:100]
UserAgentMax == 100

\* app.py:81, app.py:107  status = 200
StatusOk == 200

\* Flask's answer to an exception that leaves a view function
StatusError == 500

(* ---------------- strings ---------------- *)

Reqs == 1..MaxReq

\* characters a request can put into <name> or into a header
Chars == {"w", " ", "\t", "\n", "="}

Whitespace == {" ", "\t", "\n"}

S_event == <<"e", "v", "e", "n", "t">>
S_request == <<"r", "e", "q", "u", "e", "s", "t">>
S_path == <<"p", "a", "t", "h">>
S_method == <<"m", "e", "t", "h", "o", "d">>
S_status == <<"s", "t", "a", "t", "u", "s">>
S_name == <<"n", "a", "m", "e">>
S_duration_ms == <<"d", "u", "r", "a", "t", "i", "o", "n", "_", "m", "s">>
S_client_ip == <<"c", "l", "i", "e", "n", "t", "_", "i", "p">>
S_user_agent == <<"u", "s", "e", "r", "_", "a", "g", "e", "n", "t">>
S_GET == <<"G", "E", "T">>
S_root == <<"/">>
S_hello == <<"/", "h", "e", "l", "l", "o">>
S_None == <<"N", "o", "n", "e">>

Digit(d) == CASE d = 0 -> "0" [] d = 1 -> "1" [] d = 2 -> "2" [] d = 3 -> "3"
              [] d = 4 -> "4" [] d = 5 -> "5" [] d = 6 -> "6" [] d = 7 -> "7"
              [] d = 8 -> "8" [] d = 9 -> "9"

RECURSIVE NatStr(_)
\* str(n) for an int n >= 0
NatStr(n) == IF n < 10 THEN <<Digit(n)>> ELSE NatStr(n \div 10) \o <<Digit(n % 10)>>

\* str(n) for an int
IntStr(n) == IF n < 0 THEN <<"-">> \o NatStr(0 - n) ELSE NatStr(n)

Abs(n) == IF n < 0 THEN 0 - n ELSE n

\* round(d * 1000, 1) for a duration of d ticks of 0.04 ms, in tenths of a
\* millisecond: the nearest integer to 4d/10 (4d/10 is never a tie)
RoundTenths(d) == IF d < 0 THEN 0 - ((4 * (0 - d) + 5) \div 10) ELSE (4 * d + 5) \div 10

\* str(round(d * 1000, 1)): Python prints the sign of a negative float even
\* when it rounds to zero ("-0.0")
DurationMsStr(d) ==
    LET t == Abs(RoundTenths(d))
    IN  (IF d < 0 THEN <<"-">> ELSE <<>>) \o NatStr(t \div 10) \o <<".">> \o <<Digit(t % 10)>>

\* s[:n]
Take(s, n) == IF Len(s) <= n THEN s ELSE SubSeq(s, 1, n)

\* values handed to logfmt: str, int, the duration float, None
StrV(s) == [t |-> "str", s |-> s, n |-> 0]
IntV(n) == [t |-> "int", s |-> <<>>, n |-> n]
DurV(d) == [t |-> "dur", s |-> <<>>, n |-> d]
NoneV == [t |-> "none", s |-> <<>>, n |-> 0]

\* str(v)
Str(v) == CASE v.t = "str" -> v.s
            [] v.t = "int" -> IntStr(v.n)
            [] v.t = "dur" -> DurationMsStr(v.n)
            [] v.t = "none" -> S_None

\* s.replace(" ", "_")
ReplaceSpaces(s) == [i \in 1..Len(s) |-> IF s[i] = " " THEN "_" ELSE s[i]]

RECURSIVE Join(_)
\* " ".join(parts)
Join(parts) ==
    IF Len(parts) = 0 THEN <<>>
    ELSE IF Len(parts) = 1 THEN parts[1]
    ELSE parts[1] \o <<" ">> \o Join(Tail(parts))

\* one part of logfmt: f"{k}={s}"
Part(f) == f.k \o <<"=">> \o ReplaceSpaces(Str(f.v))

\* logfmt(**fields); fields is the ordered keyword mapping.  The list parts
\* is built once, then joined.
logfmt(fields) ==
    LET built == {[i \in 1..Len(fields) |-> Part(fields[i])]}
    IN  CHOOSE line \in {Join(parts) : parts \in built} : TRUE

Field(k, v) == [k |-> k, v |-> v]

(* ---------------- state ---------------- *)

VARIABLES
    req,      \* per request thread: pc and the locals of index() / hello()
    span,     \* per request: the span opened by start_as_current_span
    tally,    \* per request: how often each instrumentation step acted for it
    counter,  \* REQUESTS: created label tuples -> value
    hist,     \* REQ_LATENCY: created label tuples -> [count, sum]
    logs,     \* the lines written by log.info, in order
    queue,    \* ended spans held by the BatchSpanProcessor
    sent,     \* number of spans the processor has passed to the exporter
    now,      \* the system clock read by time.time() and by the tracer
    setback,  \* whether the clock has ever been set back
    probe,    \* the answers of /healthz and /metrics, and what happened since
    pool,     \* the requests this behaviour serves
    fmt       \* a call of logfmt on its own: the fields, and the line returned

vars == <<req, span, tally, counter, hist, logs, queue, sent, now, setback, probe,
          pool, fmt>>

Routes == {"index", "hello"}

\* values of <name> in the request pipeline (Flask's converter: non-empty, no "/")
Names == {<<"w">>, <<"a", " ", "b">>, <<"x", "\n">>}

\* request.remote_addr of request r
ClientIp(r) == <<"i", "p">> \o NatStr(r)

\* the User-Agent header of request r
UserAgent(r) == <<"u", "a", " ">> \o NatStr(r)

NoSpan == [state |-> "none", name |-> "", start |-> 0, end |-> 0, attr |-> <<>>,
           parent |-> "", status |-> "unset"]

IdleReq == [pc |-> "idle", route |-> "index", name |-> <<>>, sampled |-> TRUE, start |-> 0,
            resp_text |-> <<>>, status |-> 0, ret |-> <<>>]

\* fault: the instrumentation step of the request that failed, if one did
NoTally == [inc |-> 0, obs |-> 0, log |-> 0, ended |-> 0, handed |-> 0, fault |-> "none"]

\* n: requests to /healthz and /metrics served; last: the latest of them;
\* health, export: their latest answers; exports: the number of exports;
\* changed / completed: whether a metric was updated / a handler returned
\* since the latest export; quiet: whether the latest export followed an
\* earlier one with no metric update in between
NoProbe == [n |-> 0, last |-> "none", health |-> <<>>, export |-> {}, exports |-> 0,
            changed |-> FALSE, completed |-> FALSE, quiet |-> FALSE]

NoFmt == [fields |-> <<>>, line |-> <<>>, called |-> FALSE]

InitBase(P) ==
    /\ req = [r \in Reqs |-> IdleReq]
    /\ span = [r \in Reqs |-> NoSpan]
    /\ tally = [r \in Reqs |-> NoTally]
    /\ counter = <<>>
    /\ hist = <<>>
    /\ logs = <<>>
    /\ queue = <<>>
    /\ sent = 0
    /\ now = 0
    /\ setback = FALSE
    /\ probe = NoProbe
    /\ pool = P

InitWith(P) == InitBase(P) /\ fmt = NoFmt

Init == InitWith(Reqs)

(* ---------------- the registry ---------------- *)

PathOf(rt) == IF rt = "index" THEN S_root ELSE S_hello

SpanName(rt) == IF rt = "index" THEN "index-handler" ELSE "hello-handler"

\* a slip: the increment is applied twice
CounterIncTwice(c, key) ==
    IF key \in DOMAIN c THEN [c EXCEPT ![key] = @ + 2] ELSE (key :> 2) @@ c

\* a slip: labels() makes a fresh child on every call, so the value restarts
CounterIncFresh(c, key) == (key :> 1) @@ c

\* REQUESTS.labels(path=, method=, status=).inc(): the child is created on
\* first use; inc is atomic under the value's lock
CounterInc(c, key) ==
    IF key \in DOMAIN c THEN [c EXCEPT ![key] = @ + 1] ELSE (key :> 1) @@ c

\* a slip: only the first observation of a series is counted
HistObserveSumOnly(h, key, v) ==
    IF key \in DOMAIN h
    THEN [h EXCEPT ![key] = [count |-> @.count, sum |-> @.sum + v]]
    ELSE (key :> [count |-> 1, sum |-> v]) @@ h

\* REQ_LATENCY.labels(path=, method=).observe(v)
HistObserve(h, key, v) ==
    IF key \in DOMAIN h
    THEN [h EXCEPT ![key] = [count |-> @.count + 1, sum |-> @.sum + v]]
    ELSE (key :> [count |-> 1, sum |-> v]) @@ h

\* generate_latest(), for the two metrics of the application: the samples
Samples(c, h) ==
    {<<"app_requests_total", k, c[k]>> : k \in DOMAIN c}
    \cup {<<"app_request_latency_seconds_count", k, h[k].count>> : k \in DOMAIN h}
    \cup {<<"app_request_latency_seconds_sum", k, h[k].sum>> : k \in DOMAIN h}

(* ---------------- the request pipeline ---------------- *)

\* Flask dispatches a request to index() or hello(name) on a new thread;
\* the handler's first statement is start = time.time().  sm is whether the
\* server span FlaskInstrumentor opened for the request is sampled (it is
\* not when the request carries a trace context marked unsampled)
StartRequest(r, rt, nm, sm) ==
    /\ r \in pool
    /\ req[r].pc = "idle"
    /\ req' = [req EXCEPT ![r] = [@ EXCEPT !.pc = "started", !.route = rt,
                                            !.name = nm, !.sampled = sm,
                                            !.start = now]]
    /\ UNCHANGED <<span, tally, counter, hist, logs, queue, sent, now, setback, probe, pool, fmt>>

\* a slip: the span is started in an empty context, as a root
StartSpanRoot(nm, sm, t) ==
    [state |-> "open", name |-> nm, start |-> t, end |-> 0, attr |-> <<>>,
     parent |-> "", status |-> "unset"]

\* tracer.start_as_current_span(name): a child of the current span, which is
\* the server span FlaskInstrumentor opened; the provider's default sampler
\* follows the parent: a recording span, started at the clock's reading,
\* when the parent is sampled, else a span that records nothing
StartSpan(nm, sm, t) ==
    IF sm
    THEN [state |-> "open", name |-> nm, start |-> t, end |-> 0, attr |-> <<>>,
          parent |-> "flask-server", status |-> "unset"]
    ELSE [state |-> "nonrecording", name |-> "", start |-> 0, end |-> 0, attr |-> <<>>,
          parent |-> "flask-server", status |-> "unset"]

\* with tracer.start_as_current_span(...):
SpanOpen(r) ==
    /\ req[r].pc = "started"
    /\ span' = [span EXCEPT ![r] = StartSpan(SpanName(req[r].route), req[r].sampled, now)]
    /\ req' = [req EXCEPT ![r].pc = "span_open"]
    /\ UNCHANGED <<tally, counter, hist, logs, queue, sent, now, setback, probe, pool, fmt>>

\* a slip: the current span is a process-wide variable instead of a value of
\* the thread's context, so the attribute lands on the span opened last
BodyBeginSharedSpan(r) ==
    /\ req[r].pc = "span_open"
    /\ span' = [q \in Reqs |->
                    IF req[r].route = "hello" /\ span[q].state = "open"
                       /\ req[q].pc \in {"span_open", "handler_running"}
                    THEN [span[q] EXCEPT !.attr = req[r].name] ELSE span[q]]
    /\ req' = [req EXCEPT ![r].pc = "handler_running"]
    /\ UNCHANGED <<tally, counter, hist, logs, queue, sent, now, setback, probe, pool, fmt>>

\* the body up to the sleep: hello sets the attribute app.user_name
BodyBegin(r) ==
    /\ req[r].pc = "span_open"
    /\ span' = [span EXCEPT ![r].attr =
                    IF req[r].route = "hello" /\ span[r].state = "open"
                    THEN req[r].name ELSE @]
    /\ req' = [req EXCEPT ![r].pc = "handler_running"]
    /\ UNCHANGED <<tally, counter, hist, logs, queue, sent, now, setback, probe, pool, fmt>>

\* the span's end(): the first call sets the end time and hands the span to
\* the span processor, a later call does nothing
EndSpan(sp, t, st) ==
    IF sp.state = "open" THEN [sp EXCEPT !.state = "ended", !.end = t, !.status = st]
    ELSE sp

RespText(rt, nm) ==
    IF rt = "index"
    THEN <<"H", "e", "l", "l", "o", " ", "f", "r", "o", "m", " ", "s", "a", "m", "p",
           "l", "e", " ", "a", "p", "p", "!", "\n">>
    ELSE <<"H", "e", "l", "l", "o", " ">> \o nm \o <<"!", "\n">>

\* a slip: the span is exported synchronously, so ending it waits until the
\* exporter has taken what is queued
BodyEndWaits(r) ==
    /\ req[r].pc = "handler_running"
    /\ Len(queue) = 0
    /\ req' = [req EXCEPT ![r] = [@ EXCEPT !.pc = "span_closed",
                                            !.resp_text = RespText(req[r].route, req[r].name),
                                            !.status = StatusOk]]
    /\ span' = [span EXCEPT ![r] = EndSpan(@, now, "unset")]
    /\ queue' = IF span[r].state = "open" THEN Append(queue, span'[r]) ELSE queue
    /\ tally' = [tally EXCEPT ![r] = [@ EXCEPT !.ended = @ + 1,
                     !.handed = IF span[r].state = "open" THEN @ + 1 ELSE @]]
    /\ UNCHANGED <<counter, hist, logs, sent, now, setback, probe, pool, fmt>>

\* the rest of the body (resp_text, status) and the exit of the with block
BodyEnd(r) ==
    /\ req[r].pc = "handler_running"
    /\ req' = [req EXCEPT ![r] = [@ EXCEPT !.pc = "span_closed",
                                            !.resp_text = RespText(req[r].route, req[r].name),
                                            !.status = StatusOk]]
    /\ span' = [span EXCEPT ![r] = EndSpan(@, now, "unset")]
    /\ queue' = IF span[r].state = "open" THEN Append(queue, span'[r]) ELSE queue
    /\ tally' = [tally EXCEPT ![r] = [@ EXCEPT !.ended = @ + 1,
                     !.handed = IF span[r].state = "open" THEN @ + 1 ELSE @]]
    /\ UNCHANGED <<counter, hist, logs, sent, now, setback, probe, pool, fmt>>

\* a slip: the path label is request.path, which carries the name
CounterKeyRequestPath(r) ==
    <<IF req[r].route = "index" THEN S_root ELSE S_hello \o <<"/">> \o req[r].name,
      S_GET, IntStr(req[r].status)>>

CounterKey(r) == <<PathOf(req[r].route), S_GET, IntStr(req[r].status)>>

HistKey(r) == <<PathOf(req[r].route), S_GET>>

\* REQUESTS.labels(...).inc()
Count(r) ==
    /\ req[r].pc = "span_closed"
    /\ counter' = CounterInc(counter, CounterKey(r))
    /\ tally' = [tally EXCEPT ![r].inc = @ + 1]
    /\ req' = [req EXCEPT ![r].pc = "counted"]
    /\ probe' = [probe EXCEPT !.changed = TRUE]
    /\ UNCHANGED <<span, hist, logs, queue, sent, now, setback, pool, fmt>>

\* a slip: hello's latency is observed into the series of "/"
ObserveRootSeries(r) ==
    /\ req[r].pc = "counted"
    /\ hist' = HistObserve(hist, <<S_root, S_GET>>, now - req[r].start)
    /\ tally' = [tally EXCEPT ![r].obs = @ + 1]
    /\ req' = [req EXCEPT ![r].pc = "metrics_recorded"]
    /\ probe' = [probe EXCEPT !.changed = TRUE]
    /\ UNCHANGED <<span, counter, logs, queue, sent, now, setback, pool, fmt>>

\* REQ_LATENCY.labels(...).observe(time.time() - start)
Observe(r) ==
    /\ req[r].pc = "counted"
    /\ hist' = HistObserve(hist, HistKey(r), now - req[r].start)
    /\ tally' = [tally EXCEPT ![r].obs = @ + 1]
    /\ req' = [req EXCEPT ![r].pc = "metrics_recorded"]
    /\ probe' = [probe EXCEPT !.changed = TRUE]
    /\ UNCHANGED <<span, counter, logs, queue, sent, now, setback, pool, fmt>>

\* a slip: hello passes name after the other fields
LogFieldsNameLast(r, t) ==
    IF req[r].route = "index"
    THEN << Field(S_event, StrV(S_request)), Field(S_path, StrV(S_root)),
            Field(S_method, StrV(S_GET)), Field(S_status, IntV(req[r].status)),
            Field(S_duration_ms, DurV(t - req[r].start)),
            Field(S_client_ip, StrV(ClientIp(r))),
            Field(S_user_agent, StrV(Take(UserAgent(r), UserAgentMax))) >>
    ELSE << Field(S_event, StrV(S_request)), Field(S_path, StrV(S_hello)),
            Field(S_method, StrV(S_GET)), Field(S_status, IntV(req[r].status)),
            Field(S_duration_ms, DurV(t - req[r].start)),
            Field(S_client_ip, StrV(ClientIp(r))),
            Field(S_name, StrV(req[r].name)) >>

\* the keyword arguments of the logfmt call, in the order written
LogFields(r, t) ==
    IF req[r].route = "index"
    THEN << Field(S_event, StrV(S_request)), Field(S_path, StrV(S_root)),
            Field(S_method, StrV(S_GET)), Field(S_status, IntV(req[r].status)),
            Field(S_duration_ms, DurV(t - req[r].start)),
            Field(S_client_ip, StrV(ClientIp(r))),
            Field(S_user_agent, StrV(Take(UserAgent(r), UserAgentMax))) >>
    ELSE << Field(S_event, StrV(S_request)), Field(S_path, StrV(S_hello)),
            Field(S_method, StrV(S_GET)), Field(S_status, IntV(req[r].status)),
            Field(S_name, StrV(req[r].name)),
            Field(S_duration_ms, DurV(t - req[r].start)),
            Field(S_client_ip, StrV(ClientIp(r))) >>

\* a slip: the log line is written right after the with block, and the
\* handler goes on to return
LogBeforeMetrics(r) ==
    /\ req[r].pc = "span_closed"
    /\ logs' = Append(logs, logfmt(LogFields(r, now)))
    /\ tally' = [tally EXCEPT ![r].log = @ + 1]
    /\ req' = [req EXCEPT ![r].pc = "logged"]
    /\ UNCHANGED <<span, counter, hist, queue, sent, now, setback, probe, pool, fmt>>

\* log.info(logfmt(...))
Log(r) ==
    /\ req[r].pc = "metrics_recorded"
    /\ logs' = Append(logs, logfmt(LogFields(r, now)))
    /\ tally' = [tally EXCEPT ![r].log = @ + 1]
    /\ req' = [req EXCEPT ![r].pc = "logged"]
    /\ UNCHANGED <<span, counter, hist, queue, sent, now, setback, probe, pool, fmt>>

\* return resp_text, status
Return(r) ==
    /\ req[r].pc = "logged"
    /\ req' = [req EXCEPT ![r] = [@ EXCEPT !.pc = "done",
                                            !.ret = <<req[r].resp_text, req[r].status>>]]
    /\ probe' = [probe EXCEPT !.completed = TRUE]
    /\ UNCHANGED <<span, tally, counter, hist, logs, queue, sent, now, setback, pool, fmt>>

\* the BatchSpanProcessor's worker thread exports what is queued
ExportBatch ==
    /\ Len(queue) > 0
    /\ sent' = sent + Len(queue)
    /\ queue' = <<>>
    /\ UNCHANGED <<req, span, tally, counter, hist, logs, now, setback, probe, pool, fmt>>

\* an exception raised inside the with block: the context manager records
\* it on the span, ends the span and re-raises; nothing in index() / hello()
\* catches it, so the rest of the handler is skipped and Flask logs the
\* exception and answers 500
S_error_body == <<"I", "n", "t", "e", "r", "n", "a", "l", " ", "S", "e", "r", "v", "e",
                  "r", " ", "E", "r", "r", "o", "r">>

S_exception_on == <<"E", "x", "c", "e", "p", "t", "i", "o", "n", " ", "o", "n", " ">>

RequestPath(rt, nm) == IF rt = "index" THEN S_root ELSE S_hello \o <<"/">> \o nm

\* a slip: the span is opened without the with block, so an exception
\* leaves the handler with the span still open
BodyRaiseLeak(r) ==
    /\ req[r].pc = "handler_running"
    /\ logs' = Append(logs, S_exception_on \o RequestPath(req[r].route, req[r].name)
                                \o <<" ", "[">> \o S_GET \o <<"]">>)
    /\ req' = [req EXCEPT ![r] = [@ EXCEPT !.pc = "raised",
                                            !.ret = <<S_error_body, StatusError>>]]
    /\ probe' = [probe EXCEPT !.completed = TRUE]
    /\ UNCHANGED <<span, queue, tally, counter, hist, sent, now, setback, pool, fmt>>

BodyRaise(r) ==
    /\ req[r].pc = "handler_running"
    /\ span' = [span EXCEPT ![r] = EndSpan(@, now, "error")]
    /\ queue' = IF span[r].state = "open" THEN Append(queue, span'[r]) ELSE queue
    /\ tally' = [tally EXCEPT ![r] = [@ EXCEPT !.ended = @ + 1,
                     !.handed = IF span[r].state = "open" THEN @ + 1 ELSE @]]
    /\ logs' = Append(logs, S_exception_on \o RequestPath(req[r].route, req[r].name)
                                \o <<" ", "[">> \o S_GET \o <<"]">>)
    /\ req' = [req EXCEPT ![r] = [@ EXCEPT !.pc = "raised",
                                            !.ret = <<S_error_body, StatusError>>]]
    /\ probe' = [probe EXCEPT !.completed = TRUE]
    /\ UNCHANGED <<counter, hist, sent, now, setback, pool, fmt>>

\* a metrics call raises (line 84 / 109 before the increment, line 85 / 110
\* before the observation): nothing in index() / hello() catches it, so the
\* log line and the return are skipped and Flask logs the exception and
\* answers 500
MetricsRaise(r) ==
    /\ req[r].pc \in {"span_closed", "counted"}
    /\ tally' = [tally EXCEPT ![r].fault = "metrics"]
    /\ logs' = Append(logs, S_exception_on \o RequestPath(req[r].route, req[r].name)
                                \o <<" ", "[">> \o S_GET \o <<"]">>)
    /\ req' = [req EXCEPT ![r] = [@ EXCEPT !.pc = "raised",
                                            !.ret = <<S_error_body, StatusError>>]]
    /\ probe' = [probe EXCEPT !.completed = TRUE]
    /\ UNCHANGED <<span, counter, hist, queue, sent, now, setback, pool, fmt>>

\* log.info(...) when the stream handler set up by logging.basicConfig cannot
\* write: the handler's emit catches the error and reports it on stderr, no
\* line is written and log.info returns normally
LogSinkFail(r) ==
    /\ req[r].pc = "metrics_recorded"
    /\ tally' = [tally EXCEPT ![r].fault = "log"]
    /\ req' = [req EXCEPT ![r].pc = "logged"]
    /\ UNCHANGED <<span, counter, hist, logs, queue, sent, now, setback, probe, pool, fmt>>

\* the system clock moves: forward as time passes, or to any other reading
\* when it is set (time.time() is the wall clock)
ClockStep(t) ==
    /\ t /= now
    /\ now' = t
    /\ setback' = (setback \/ t < now)
    /\ UNCHANGED <<req, span, tally, counter, hist, logs, queue, sent, probe, pool, fmt>>

S_healthz == <<"/", "h", "e", "a", "l", "t", "h", "z">>

\* a slip: /healthz is counted like the instrumented routes
healthCounted ==
    /\ probe.n < MaxScrapes
    /\ probe' = [probe EXCEPT !.n = @ + 1, !.last = "healthz", !.changed = TRUE,
                              !.health = <<<<"o", "k", "\n">>, StatusOk>>]
    /\ counter' = CounterInc(counter, <<S_healthz, S_GET, IntStr(StatusOk)>>)
    /\ UNCHANGED <<req, span, tally, hist, logs, queue, sent, now, setback, pool, fmt>>

\* GET /healthz
health ==
    /\ probe.n < MaxScrapes
    /\ probe' = [probe EXCEPT !.n = @ + 1, !.last = "healthz",
                              !.health = <<<<"o", "k", "\n">>, StatusOk>>]
    /\ UNCHANGED <<req, span, tally, counter, hist, logs, queue, sent, now, setback, pool, fmt>>

S_metrics == <<"/", "m", "e", "t", "r", "i", "c", "s">>

\* a slip: /metrics is counted like the instrumented routes
metricsCounted ==
    /\ probe.n < MaxScrapes
    /\ counter' = CounterInc(counter, <<S_metrics, S_GET, IntStr(StatusOk)>>)
    /\ probe' = [probe EXCEPT !.n = @ + 1, !.last = "metrics",
                              !.export = Samples(counter', hist),
                              !.exports = @ + 1,
                              !.quiet = (probe.exports > 0 /\ ~probe.changed),
                              !.changed = FALSE, !.completed = FALSE]
    /\ UNCHANGED <<req, span, tally, hist, logs, queue, sent, now, setback, pool, fmt>>

\* GET /metrics
metrics ==
    /\ probe.n < MaxScrapes
    /\ probe' = [probe EXCEPT !.n = @ + 1, !.last = "metrics",
                              !.export = Samples(counter, hist),
                              !.exports = @ + 1,
                              !.quiet = (probe.exports > 0 /\ ~probe.changed),
                              !.changed = FALSE, !.completed = FALSE]
    /\ UNCHANGED <<req, span, tally, counter, hist, logs, queue, sent, now, setback, pool, fmt>>

Next ==
    \/ \E r \in Reqs, sm \in BOOLEAN : StartRequest(r, "index", <<>>, sm)
    \/ \E r \in Reqs, nm \in Names, sm \in BOOLEAN : StartRequest(r, "hello", nm, sm)
    \/ \E r \in Reqs : SpanOpen(r)
    \/ \E r \in Reqs : BodyBegin(r)
    \/ \E r \in Reqs : BodyEnd(r)
    \/ \E r \in Reqs : Count(r)
    \/ \E r \in Reqs : Observe(r)
    \/ \E r \in Reqs : Log(r)
    \/ \E r \in Reqs : Return(r)
    \/ ExportBatch

Raise == \E r \in Reqs : BodyRaise(r)

Tick == \E t \in 0..MaxClock : ClockStep(t)

\* the handlers as written: nothing in their bodies raises
Spec == Init /\ [][Next]_vars

\* the handlers when the body of the with block raises
SpecFail == Init /\ [][Next \/ Raise]_vars

StepFault == \E r \in Reqs : MetricsRaise(r) \/ LogSinkFail(r)

\* the handlers when a metrics call raises or the log line cannot be written
SpecStepFault == Init /\ [][Next \/ StepFault]_vars

\* the statements of one handler invocation, after its first
HandlerStep(r) ==
    \/ SpanOpen(r)
    \/ BodyBegin(r)
    \/ BodyEnd(r)
    \/ Count(r)
    \/ Observe(r)
    \/ Log(r)
    \/ Return(r)

AnyHandlerStep == \E r \in Reqs : HandlerStep(r)

\* the handlers as written, with the request threads kept running: while a
\* handler has a statement left, some handler runs one.  Nothing is assumed
\* about when, or whether, the span processor's worker exports
InitLive == InitWith({1, 2})

\* two concurrent requests
SpecLive == InitLive /\ [][Next]_vars /\ WF_vars(AnyHandlerStep)

InitProbe == InitWith(1..MaxProbedReq)

\* the handlers with /healthz and /metrics served alongside
SpecProbe == InitProbe /\ [][Next \/ health \/ metrics]_vars

InitClock == InitWith({1})

\* one request under a moving clock, its body raising or not
SpecClock == InitClock /\ [][Next \/ Raise \/ Tick]_vars

(* ---------------- logfmt on its own ---------------- *)

RECURSIVE StringsUpTo(_)
\* the strings over Chars of length at most n
StringsUpTo(n) ==
    IF n = 0 THEN {<<>>}
    ELSE LET S == StringsUpTo(n - 1)
         IN  S \cup {Append(s, c) : s \in S, c \in Chars}

\* values a caller can pass: strings, an int, a duration, None
FmtValues == {StrV(s) : s \in StringsUpTo(MaxValLen)} \cup {IntV(StatusOk), DurV(0 - 1), NoneV}

\* keyword mappings of zero, one and two fields
FieldSeqs ==
    {<<>>} \cup {<<Field(S_name, v)>> : v \in FmtValues}
    \cup {<<Field(S_name, v), Field(S_path, w)>> : v \in FmtValues, w \in FmtValues}

InitLogfmt ==
    /\ InitBase({})
    /\ \E fs \in FieldSeqs : fmt = [fields |-> fs, line |-> <<>>, called |-> FALSE]

CallLogfmt ==
    /\ ~fmt.called
    /\ fmt' = [fmt EXCEPT !.line = logfmt(fmt.fields), !.called = TRUE]
    /\ UNCHANGED <<req, span, tally, counter, hist, logs, queue, sent, now, setback,
                   probe, pool>>

SpecLogfmt == InitLogfmt /\ [][CallLogfmt]_vars

(* ---------------- what the claims speak of ---------------- *)

Paths == {S_root, S_hello}

CounterKeys == {<<p, S_GET, IntStr(st)>> : p \in Paths, st \in {StatusOk, StatusError}}

CounterVal(c, key) == IF key \in DOMAIN c THEN c[key] ELSE 0

HistCount(h, key) == IF key \in DOMAIN h THEN h[key].count ELSE 0

RECURSIVE SumOf(_, _)
SumOf(f, S) ==
    IF S = {} THEN 0
    ELSE LET x == CHOOSE y \in S : TRUE IN f[x] + SumOf(f, S \ {x})

\* the counter's total for a path, over all statuses
CounterTotal(c, p) == SumOf(c, {k \in DOMAIN c : k[1] = p})

Returned(r) == req[r].pc = "done"

AllReturned == \A r \in pool : Returned(r)

(* C1: every request to / or /hello/<name> whose handler returns has had       *)
(* exactly one increment of app_requests_total and exactly one observation of  *)
(* app_request_latency_seconds, both on its own path: no request is counted or *)
(* observed twice, and the registry's totals per path are the numbers of       *)
(* requests counted and observed on that path.                                 *)
C1_OneIncrementOneObservation ==
    /\ \A r \in Reqs :
        /\ tally[r].inc <= 1
        /\ tally[r].obs <= 1
        /\ Returned(r) => tally[r].inc = 1 /\ tally[r].obs = 1
    /\ \A p \in Paths :
        /\ CounterTotal(counter, p)
             = Cardinality({r \in Reqs : tally[r].inc = 1 /\ PathOf(req[r].route) = p})
        /\ HistCount(hist, <<p, S_GET>>)
             = Cardinality({r \in Reqs : tally[r].obs = 1 /\ PathOf(req[r].route) = p})

C1_Witness ==
    /\ AllReturned
    /\ \E r \in Reqs : req[r].route = "index"
    /\ \E r \in Reqs : req[r].route = "hello"
    /\ CounterTotal(counter, S_root) = 1
    /\ HistCount(hist, <<S_hello, S_GET>>) = 1

(* C2: once all the requests have returned, however their steps interleaved,   *)
(* each counter series (path, method, status) holds the number of requests     *)
(* that returned with that path and status: no increment is lost.              *)
C2_NoLostIncrement ==
    AllReturned =>
        /\ DOMAIN counter \subseteq CounterKeys
        /\ \A key \in CounterKeys :
              CounterVal(counter, key)
                = Cardinality({r \in Reqs : Returned(r) /\ CounterKey(r) = key})

\* two requests to /hello returned after overlapping: the first ended its
\* span first, the second wrote its log line first
C2_Witness ==
    /\ AllReturned
    /\ \A r \in Reqs : req[r].route = "hello" /\ req[r].sampled
    /\ CounterVal(counter, <<S_hello, S_GET, IntStr(StatusOk)>>) = Cardinality(Reqs)
    /\ Len(queue) = Cardinality(Reqs)
    /\ req[1].name /= req[2].name
    /\ queue[1].attr = req[1].name
    /\ logs[1] = logfmt(LogFields(2, now))

(* C3: when the body of a handler raises, the failure stays inside the         *)
(* handler: the handler still returns, with status 500, after exactly one      *)
(* counter increment on the status-500 series, one histogram observation and   *)
(* one log line event=request ... status=500.                                  *)
BodyFailed(r) == span[r].status = "error" \/ req[r].pc = "raised"

IsPrefix(p, s) == Len(p) <= Len(s) /\ SubSeq(s, 1, Len(p)) = p

\* "event=request path=<p> method=GET status=<st> ", st in digits
RequestLinePrefix(p, st) ==
    S_event \o <<"=">> \o S_request \o <<" ">> \o S_path \o <<"=">> \o p \o <<" ">>
    \o S_method \o <<"=">> \o S_GET \o <<" ">> \o S_status \o <<"=">> \o st \o <<" ">>

S_200 == <<"2", "0", "0">>

S_500 == <<"5", "0", "0">>

C3_FailureContained ==
    \A r \in Reqs :
        BodyFailed(r) =>
            /\ req[r].pc /= "raised"
            /\ Returned(r) =>
                /\ req[r].ret[2] = StatusError
                /\ tally[r].inc = 1
                /\ CounterVal(counter, <<PathOf(req[r].route), S_GET, S_500>>) >= 1
                /\ tally[r].obs = 1
                /\ tally[r].log = 1
                /\ \E i \in 1..Len(logs) :
                      IsPrefix(RequestLinePrefix(PathOf(req[r].route), S_500), logs[i])

(* C4: the span a handler opens is ended exactly once on every way out of the  *)
(* with block, by return or by exception, is handed on for export exactly      *)
(* once, ends no earlier than it started, and is never left open once the      *)
(* handler is past the block.                                                  *)
PastBody(r) ==
    req[r].pc \in {"span_closed", "counted", "metrics_recorded", "logged", "done", "raised"}

InBody(r) == req[r].pc \in {"span_open", "handler_running"}

Stage(q) ==
    CASE q.pc = "idle" -> 0
      [] q.pc = "started" -> 1
      [] q.pc = "span_open" -> 2
      [] q.pc = "handler_running" -> 3
      [] q.pc \in {"span_closed", "counted"} -> 4
      [] q.pc = "metrics_recorded" -> 5
      [] q.pc = "logged" -> 6
      [] q.pc = "done" -> 7
      [] q.pc = "raised" -> 8

StageEffects(r) ==
    LET st == Stage(req[r]) IN
    /\ st \in 0..7
    /\ (span[r].state /= "none") = (st >= 2)
    /\ tally[r].ended = (IF st >= 4 THEN 1 ELSE 0)
    /\ st >= 4 => span[r].state /= "open"
    /\ st < 4 => tally[r].inc = 0
    /\ tally[r].obs = 1 => tally[r].inc = 1
    /\ (tally[r].inc = 1 /\ tally[r].obs = 1) = (st >= 5)
    /\ tally[r].log = (IF st >= 6 THEN 1 ELSE 0)
    /\ (req[r].ret /= <<>>) = (st = 7)

C5_StagesInOrder ==
    /\ [](\A r \in Reqs : StageEffects(r))
    /\ [][\A r \in Reqs : Stage(req'[r]) \in {Stage(req[r]), Stage(req[r]) + 1}]_vars

C5_Witness ==
    /\ \E r \in Reqs : req[r].pc = "done" /\ tally[r].log = 1
    /\ \E r \in Reqs : req[r].pc = "counted"
    /\ Len(logs) = 1

(* C6: GET /healthz answers "ok\n" with status 200 and changes no counter, no  *)
(* histogram and no log output, whatever the state and however often it is     *)
(* asked.                                                                      *)
HealthzStep == probe'.n /= probe.n /\ probe'.last = "healthz"

C6_HealthzUninstrumented ==
    [][HealthzStep =>
          /\ probe'.health = << <<"o", "k", "\n">>, StatusOk >>
          /\ counter' = counter
          /\ hist' = hist
          /\ logs' = logs
          /\ tally' = tally]_vars

\* /healthz asked twice, the second time with a request counted and in flight
C6_Witness ==
    /\ probe.last = "healthz"
    /\ probe.n >= 2
    /\ probe.exports = 0
    /\ DOMAIN counter /= {}
    /\ \E r \in Reqs : req[r].pc = "counted"

(* C7: for every name, GET /hello/<name> returns "Hello <name>!\n" with status *)
(* 200, adds exactly 1 to app_requests_total{path="/hello",method="GET",       *)
(* status="200"} and writes exactly one log line, which begins                 *)
(* event=request path=/hello method=GET status=200 name=<name>.                *)
HelloKey == <<S_hello, S_GET, S_200>>

HelloBody(nm) == <<"H", "e", "l", "l", "o", " ">> \o nm \o <<"!", "\n">>

HelloReturns(r) ==
    (req[r].route = "hello" /\ Returned(r)) =>
        /\ req[r].ret = <<HelloBody(req[r].name), StatusOk>>
        /\ tally[r].inc = 1
        /\ tally[r].log = 1

HelloCountStep(r) ==
    (req'[r].route = "hello" /\ tally'[r].inc /= tally[r].inc) =>
        /\ CounterVal(counter', HelloKey) = CounterVal(counter, HelloKey) + 1
        /\ \A k \in (DOMAIN counter \cup DOMAIN counter') \ {HelloKey} :
              CounterVal(counter', k) = CounterVal(counter, k)

\* the line written for r begins with the request prefix and name=<shown>
HelloLogStep(r, shown) ==
    (req'[r].route = "hello" /\ tally'[r].log /= tally[r].log) =>
        /\ Len(logs') = Len(logs) + 1
        /\ SubSeq(logs', 1, Len(logs)) = logs
        /\ IsPrefix(RequestLinePrefix(S_hello, S_200) \o S_name \o <<"=">> \o shown \o <<" ">>,
                    logs'[Len(logs')])

C7_HelloScenario ==
    /\ [](\A r \in Reqs : HelloReturns(r))
    /\ [][\A r \in Reqs : HelloCountStep(r) /\ HelloLogStep(r, req'[r].name)]_vars

\* the name with every space turned into an underscore, nothing else changed
Underscored(nm) == [i \in 1..Len(nm) |-> IF nm[i] = " " THEN "_" ELSE nm[i]]

(* C7 as amended: the same, except that the line shows the name with each      *)
(* space replaced by an underscore: name=a_b for the name "a b".               *)
C7_HelloScenarioAmended ==
    /\ [](\A r \in Reqs : HelloReturns(r))
    /\ [][\A r \in Reqs : HelloCountStep(r) /\ HelloLogStep(r, Underscored(req'[r].name))]_vars

\* /hello/a b has returned "Hello a b!\n" and its line says name=a_b
C7_Witness ==
    \E r \in Reqs :
        /\ req[r].route = "hello"
        /\ Returned(r)
        /\ req[r].name = <<"a", " ", "b">>
        /\ req[r].ret[1] = <<"H", "e", "l", "l", "o", " ", "a", " ", "b", "!", "\n">>
        /\ CounterVal(counter, HelloKey) >= 1
        /\ \E i \in 1..Len(logs) :
              IsPrefix(RequestLinePrefix(S_hello, S_200) \o S_name
                           \o <<"=", "a", "_", "b", " ">>, logs[i])

(* C8: when every request that was started has finished, the histogram's       *)
(* observation count for each (path, method) equals the counter's total for    *)
(* that (path, method) over all statuses.                                      *)
Quiescent == \A r \in Reqs : req[r].pc \in {"idle", "done", "raised"}

C8_HistCountEqualsCounterTotal ==
    Quiescent =>
        /\ \A k \in DOMAIN hist : k[1] \in Paths
        /\ \A k \in DOMAIN counter : k[1] \in Paths
        /\ \A p \in Paths : HistCount(hist, <<p, S_GET>>) = CounterTotal(counter, p)

\* all requests went to / and have returned
C8_Witness ==
    /\ AllReturned
    /\ \A r \in Reqs : req[r].route = "index"
    /\ HistCount(hist, <<S_root, S_GET>>) = Cardinality(Reqs)
    /\ CounterTotal(counter, S_root) = Cardinality(Reqs)

(* C9: GET /metrics changes no counter and no histogram; two exports with no   *)
(* instrumented request completing between them are identical; and an export   *)
(* shows every increment made by a request that returned before it.            *)
MetricsStep == probe'.n /= probe.n /\ probe'.last = "metrics"

ReturnedWith(key) == Cardinality({r \in Reqs : Returned(r) /\ CounterKey(r) = key})

ExportReadOnly == counter' = counter /\ hist' = hist

ExportReflectsReturned ==
    \A key \in CounterKeys :
        ReturnedWith(key) > 0 =>
            \E smp \in probe'.export :
                smp[1] = "app_requests_total" /\ smp[2] = key /\ smp[3] >= ReturnedWith(key)

C9_ExportReadOnly ==
    [][MetricsStep =>
          /\ ExportReadOnly
          /\ ExportReflectsReturned
          /\ (probe.exports > 0 /\ ~probe.completed) => probe'.export = probe.export]_vars

(* C9 as amended: the same, with "no counter increment and no histogram        *)
(* observation between them" in place of "no request completing between        *)
(* them": a request still in flight can update the registry between two        *)
(* exports.                                                                    *)
C9_ExportReadOnlyAmended ==
    [][MetricsStep =>
          /\ ExportReadOnly
          /\ ExportReflectsReturned
          /\ (probe.exports > 0 /\ ~probe.changed) => probe'.export = probe.export]_vars

\* two exports in a row after a request returned: the second repeats the first
C9_Witness ==
    /\ probe.last = "metrics"
    /\ probe.quiet
    /\ probe.exports >= 2
    /\ probe.export /= {}
    /\ \E r \in Reqs : Returned(r)

(* C10: logfmt returns one line with exactly one key=value token per field, in *)
(* the caller's order, separated by single spaces, every space, tab and        *)
(* newline of a value replaced by an underscore: no token holds whitespace and *)
(* the line splits into no more tokens, and no more lines, than fields.        *)
RECURSIVE TokensFrom(_, _, _, _)
\* the maximal runs of non-whitespace characters of s, from position i on
TokensFrom(s, i, cur, acc) ==
    IF i > Len(s) THEN (IF cur = <<>> THEN acc ELSE Append(acc, cur))
    ELSE IF s[i] \in Whitespace
         THEN TokensFrom(s, i + 1, <<>>, IF cur = <<>> THEN acc ELSE Append(acc, cur))
         ELSE TokensFrom(s, i + 1, Append(cur, s[i]), acc)

Tokens(s) == TokensFrom(s, 1, <<>>, <<>>)

NoWhitespace(s) == [i \in 1..Len(s) |-> IF s[i] \in Whitespace THEN "_" ELSE s[i]]

\* what str() gives for each kind of value
Shown(v) ==
    CASE v.t = "str" -> v.s
      [] v.t = "int" -> S_200
      [] v.t = "dur" -> <<"-", "0", ".", "0">>
      [] v.t = "none" -> S_None

RECURSIVE Spaced(_)
Spaced(toks) ==
    IF toks = <<>> THEN <<>>
    ELSE IF Len(toks) = 1 THEN toks[1]
    ELSE toks[1] \o <<" ">> \o Spaced(Tail(toks))

C10_LogfmtOneTokenPerField ==
    fmt.called =>
        LET want == [i \in 1..Len(fmt.fields) |->
                        fmt.fields[i].k \o <<"=">> \o NoWhitespace(Shown(fmt.fields[i].v))]
        IN  /\ Tokens(fmt.line) = want
            /\ fmt.line = Spaced(want)
            /\ \A i \in 1..Len(fmt.line) : fmt.line[i] /= "\n"


(* C11: a failure of one instrumentation step stays in that step: when the     *)
(* log line cannot be emitted, the request's counter increment and histogram   *)
(* observation are recorded and its response is returned; when a metrics call  *)
(* fails, the log line is still emitted and the response is returned.          *)
RequestLineOf(r) ==
    \E i \in 1..Len(logs) :
        IsPrefix(RequestLinePrefix(PathOf(req[r].route), S_200), logs[i])

C11_StepFailureContained ==
    \A r \in Reqs :
        /\ tally[r].fault = "log" =>
              /\ tally[r].inc = 1
              /\ tally[r].obs = 1
              /\ req[r].pc \in {"logged", "done"}
              /\ Returned(r) => req[r].ret = <<RespText(req[r].route, req[r].name), StatusOk>>
        /\ tally[r].fault = "metrics" =>
              /\ req[r].pc /= "raised"
              /\ Returned(r) =>
                    /\ RequestLineOf(r)
                    /\ req[r].ret = <<RespText(req[r].route, req[r].name), StatusOk>>

(* C12: every request that has started reaches DONE and returns its response,  *)
(* whether or not the exporter ever takes the queued spans: ending the span    *)
(* only puts it in the processor's queue and no step waits for the export.     *)
C12_RequestsComplete ==
    \A r \in Reqs :
        (req[r].pc = "started")
            ~> (req[r].pc = "done" /\ req[r].ret = <<req[r].resp_text, req[r].status>>)

\* every request has returned while all their spans are still queued
C12_Witness ==
    /\ AllReturned
    /\ \A r \in pool : req[r].sampled
    /\ sent = 0
    /\ Len(queue) = Cardinality(pool)

(* C13: under any interleaving of concurrent requests, what a request returns, *)
(* the attribute on its span and its log line are made from that request's own *)
(* inputs (route, name, remote address, user agent) and from no other          *)
(* request's: the span carries the request's own name, the response greets the *)
(* request's own name, and the one line that shows the request's address shows *)
(* its own path and name (or user agent).                                      *)
Contains(s, sub) ==
    \E k \in 0..(Len(s) - Len(sub)) : SubSeq(s, k + 1, k + Len(sub)) = sub

IsSuffix(p, s) == Len(p) <= Len(s) /\ SubSeq(s, Len(s) - Len(p) + 1, Len(s)) = p

AddrPart(r) == <<" ">> \o S_client_ip \o <<"=">> \o ClientIp(r)

\* line shows the remote address of request r
ShowsAddr(r, line) ==
    \/ IsSuffix(AddrPart(r), line)
    \/ Contains(line, AddrPart(r) \o <<" ">>)

\* line is made from the inputs of request r
OwnLine(r, line) ==
    IF req[r].route = "index"
    THEN /\ IsPrefix(RequestLinePrefix(S_root, S_200), line)
         /\ IsSuffix(AddrPart(r) \o <<" ">> \o S_user_agent \o <<"=">>
                        \o Underscored(Take(UserAgent(r), UserAgentMax)), line)
    ELSE /\ IsPrefix(RequestLinePrefix(S_hello, S_200) \o S_name \o <<"=">>
                        \o Underscored(req[r].name) \o <<" ">>, line)
         /\ IsSuffix(AddrPart(r), line)

OwnSpan(r) ==
    /\ span[r].state \in {"open", "ended"} => span[r].name = SpanName(req[r].route)
    /\ (req[r].sampled /\ req[r].pc \notin {"idle", "started", "span_open"}) =>
           span[r].attr = IF req[r].route = "hello" THEN req[r].name ELSE <<>>
    /\ req[r].pc \in {"started", "span_open"} => span[r].attr = <<>>

OwnResponse(r) ==
    Returned(r) =>
        req[r].ret = <<IF req[r].route = "index" THEN RespText("index", <<>>)
                       ELSE HelloBody(req[r].name), StatusOk>>

OwnLogLine(r) ==
    LET shown == {i \in 1..Len(logs) : ShowsAddr(r, logs[i])}
    IN  /\ \A i \in shown : OwnLine(r, logs[i])
        /\ Cardinality(shown) = tally[r].log

C13_OwnStateOnly == \A r \in Reqs : OwnSpan(r) /\ OwnResponse(r) /\ OwnLogLine(r)

\* two sampled /hello requests with different names ran interleaved (the
\* second thread logged first) and both have returned
C13_Witness ==
    /\ MaxReq >= 2
    /\ req[1].route = "hello" /\ req[2].route = "hello"
    /\ req[1].name /= req[2].name
    /\ req[1].sampled /\ req[2].sampled
    /\ Returned(1) /\ Returned(2)
    /\ Len(logs) = 2 /\ ShowsAddr(2, logs[1]) /\ ShowsAddr(1, logs[2])


(* C14: every value observed into the latency histogram is >= 0, so each       *)
(* series' sum is non-negative and does not decrease when an observation is    *)
(* added, whatever the clock reads at the start and at the end of a request.   *)
HistSum(h, key) == IF key \in DOMAIN h THEN h[key].sum ELSE 0

ObservedNonNegative(r) ==
    tally'[r].obs /= tally[r].obs =>
        HistSum(hist', HistKey(r)) - HistSum(hist, HistKey(r)) >= 0

C14_ObservedNonNegative ==
    /\ [](\A key \in DOMAIN hist : hist[key].sum >= 0)
    /\ [][\A r \in Reqs : ObservedNonNegative(r)]_vars


(* C15: the duration of a request is measured once, and that one value is both *)
(* what is observed into the latency histogram and what the request's log line *)
(* reports as duration_ms: the line written for a request whose observation is *)
(* the only one of its series shows the series' sum, in milliseconds.          *)
DurationPart(d) == <<" ">> \o S_duration_ms \o <<"=">> \o DurationMsStr(d) \o <<" ">>

LogsObservedDuration(r) ==
    (tally'[r].log /= tally[r].log /\ tally[r].obs = 1
        /\ HistCount(hist, HistKey(r)) = 1) =>
        /\ Len(logs') = Len(logs) + 1
        /\ Contains(logs'[Len(logs')], DurationPart(HistSum(hist, HistKey(r))))

C15_SingleDuration == [][\A r \in Reqs : LogsObservedDuration(r)]_vars


(* C16: the span a handler opens for a request is started with no parent: it   *)
(* is the root of the request's span tree, and no handler span handed to the   *)
(* exporter's queue has another span as its parent.                            *)
Started(sp) == sp.state /= "none"

C16_HandlerSpanIsRoot ==
    /\ \A r \in Reqs : Started(span[r]) => span[r].parent = ""
    /\ \A i \in 1..Len(queue) : queue[i].parent = ""

(* C16 as amended: the span a handler opens is started as a child of the       *)
(* current span, which is the server span FlaskInstrumentor opened for the     *)
(* request; every handler span, and every one handed to the exporter's queue,  *)
(* has that server span as its parent, and never another handler's span.       *)
C16_HandlerSpanIsChildOfServerSpan ==
    /\ \A r \in Reqs : Started(span[r]) => span[r].parent = "flask-server"
    /\ \A i \in 1..Len(queue) :
          /\ queue[i].parent = "flask-server"
          /\ queue[i].name \in {"index-handler", "hello-handler"}

\* an ended handler span is in the processor's queue
C16_Witness ==
    \E r \in Reqs :
        /\ span[r].state = "ended"
        /\ \E i \in 1..Len(queue) : queue[i] = span[r]


(* C17: in every reachable state, for each (path, method) the counter's total  *)
(* over all statuses is >= the histogram's observation count, and the          *)
(* difference is the number of requests that have incremented the counter and  *)
(* not yet observed their latency; an export made in such a state shows the    *)
(* two totals differing.                                                       *)
BetweenIncAndObserve(p) ==
    {r \in Reqs : req[r].pc = "counted" /\ PathOf(req[r].route) = p}

C17_CounterLeadsHistogram ==
    \A p \in Paths :
        /\ CounterTotal(counter, p) >= HistCount(hist, <<p, S_GET>>)
        /\ CounterTotal(counter, p) - HistCount(hist, <<p, S_GET>>)
              = Cardinality(BetweenIncAndObserve(p))

\* two requests to one path are both between increment and observation, and
\* what generate_latest() would export now has the counter at 2 and no
\* latency count for the path
C17_Witness ==
    \E p \in Paths :
        /\ Cardinality(BetweenIncAndObserve(p)) = 2
        /\ <<"app_requests_total", <<p, S_GET, S_200>>, 2>> \in Samples(counter, hist)
        /\ \A s \in Samples(counter, hist) :
              ~(s[1] = "app_request_latency_seconds_count" /\ s[2] = <<p, S_GET>>)


(* C18: whatever requests are made and whatever their names, the only counter  *)
(* series ever created are ("/", "GET", "200") and ("/hello", "GET", "200")    *)
(* and the only histogram series ("/", "GET") and ("/hello", "GET"): no label  *)
(* value shows a request's name and the status label is always "200".          *)
LabelValues == UNION {{k[i] : i \in DOMAIN k} : k \in DOMAIN counter \cup DOMAIN hist}

NamesSeen == {req[r].name : r \in {q \in Reqs : req[q].route = "hello" /\ req[q].pc /= "idle"}}

C18_SeriesBounded ==
    /\ DOMAIN counter \subseteq {<<S_root, S_GET, S_200>>, <<S_hello, S_GET, S_200>>}
    /\ DOMAIN hist \subseteq {<<S_root, S_GET>>, <<S_hello, S_GET>>}
    /\ \A k \in DOMAIN counter : k[3] = S_200
    /\ \A v \in LabelValues : \A nm \in NamesSeen : ~Contains(v, nm)

\* two /hello requests with different names have returned and share the one
\* counter series and the one histogram series
C18_Witness ==
    /\ \E r, q \in Reqs :
          /\ req[r].route = "hello" /\ req[q].route = "hello"
          /\ req[r].name /= req[q].name
          /\ Returned(r) /\ Returned(q)
    /\ DOMAIN counter = {<<S_hello, S_GET, S_200>>}
    /\ counter[<<S_hello, S_GET, S_200>>] = 2
    /\ DOMAIN hist = {<<S_hello, S_GET>>}

====
